---- MODULE Spec2Model ----
(***************************************************************************)
(* Model of the hotel-agent analytics core: generate_summary and its       *)
(* manual fallback (src/app/summarizer.py), segment_customers              *)
(* (src/app/clustering.py), analyze_sentiments (src/app/sentiment_model.py)*)
(* and the dashboards of src/app/main.py with the figures they take from   *)
(* src/app/visualizations.py.                                              *)
(*                                                                         *)
(* Text is a sequence of one-character strings.  The five emoji of the     *)
(* narrative templates are single code points; they are written with the   *)
(* ASCII stand-ins # @ ^ & ! (one character each, so lengths are kept).    *)
(* Numbers are exact rationals <<n, d>>; d = 0 stands for the float        *)
(* specials: <<0, 0>> is NaN and <<1, 0>> is +inf.                         *)
(***************************************************************************)
EXTENDS Integers, Sequences, FiniteSets, TLC

----------------------------------------------------------------------------
(* Bounds and program constants *)

MaxBookings == 3

MaxSegBookings == 4

MaxReviews == 4

MaxPad == 2

ShortReviewLen == 5

LongReviewLen == 224

\* KMeans(n_clusters=3), range(3)
NClusters == 3

\* len(prompt) > 1000
MaxPromptLen == 1000

\* len(summary.strip()) < 10
MinSummaryLen == 10

----------------------------------------------------------------------------
(* String literals of the source *)

LitSegment ==
    <<"S","e","g","m","e","n","t"," ">>

LitExplainNights ==
    <<":"," ","a","v","g"," ","n","i","g","h","t","s"," ","="," ">>

LitExplainSpent ==
    <<","," ","a","v","g"," ","s","p","e","n","t"," ","="," ">>

LitExplainPerNight ==
    <<","," ","a","v","g"," ","s","p","e","n","t","/","n","i","g","h","t"," ","="," ">>

LitExplainCount ==
    <<","," ","c","o","u","n","t"," ","="," ">>

LitHeader ==
    <<"H","o","t","e","l"," ","A","n","a","l","y","t","i","c","s"," ","S","u","m","m","a","r",
      "y",":"," ">>

LitTotalBookings ==
    <<"T","o","t","a","l"," ","b","o","o","k","i","n","g","s",":"," ">>

LitTotalRevenue ==
    <<"T","o","t","a","l"," ","r","e","v","e","n","u","e",":"," ","$">>

LitAvgRevenue ==
    <<"A","v","e","r","a","g","e"," ","r","e","v","e","n","u","e"," ","p","e","r"," ","b","o",
      "o","k","i","n","g",":"," ","$">>

LitAvgNights ==
    <<"A","v","e","r","a","g","e"," ","n","i","g","h","t","s"," ","p","e","r"," ","s","t","a",
      "y",":"," ">>

LitSpentPerNight ==
    <<"A","v","e","r","a","g","e"," ","s","p","e","n","t"," ","p","e","r"," ","n","i","g","h",
      "t",":"," ","$">>

LitSegments ==
    <<"C","u","s","t","o","m","e","r"," ","s","e","g","m","e","n","t","s",":"," ">>

LitSentiment ==
    <<"R","e","v","i","e","w"," ","s","e","n","t","i","m","e","n","t"," ","d","i","s","t","r",
      "i","b","u","t","i","o","n",":"," ">>

LitSampleReviews ==
    <<"S","a","m","p","l","e"," ","r","e","v","i","e","w","s",":"," ">>

LitReviewSep ==
    <<" ","|"," ">>

LitInstruction ==
    <<"P","r","o","v","i","d","e"," ","k","e","y"," ","i","n","s","i","g","h","t","s"," ","a",
      "n","d"," ","r","e","c","o","m","m","e","n","d","a","t","i","o","n","s"," ","f","o","r",
      " ","h","o","t","e","l"," ","m","a","n","a","g","e","m","e","n","t",".">>

LitSentenceEnd ==
    <<"."," ">>

LitEllipsis ==
    <<".",".",".">>

LitInf ==
    <<"i","n","f">>

LitNan ==
    <<"n","a","n">>

LitPositive ==
    <<"P","O","S","I","T","I","V","E">>

LitNegative ==
    <<"N","E","G","A","T","I","V","E">>

LitNeutral ==
    <<"N","E","U","T","R","A","L">>

LitOverviewHead ==
    <<"#"," ","*","*","B","u","s","i","n","e","s","s"," ","O","v","e","r","v","i","e","w","*",
      "*",":"," ">>

LitOverviewMid ==
    <<" ","t","o","t","a","l"," ","b","o","o","k","i","n","g","s"," ","w","i","t","h"," ","$">>

LitOverviewTail ==
    <<" ","t","o","t","a","l"," ","r","e","v","e","n","u","e",".">>

LitPerformanceHead ==
    <<"@"," ","*","*","A","v","e","r","a","g","e"," ","P","e","r","f","o","r","m","a","n","c",
      "e","*","*",":"," ","$">>

LitPerformanceMid ==
    <<" ","p","e","r"," ","b","o","o","k","i","n","g",","," ">>

LitPerformanceTail ==
    <<" ","n","i","g","h","t","s"," ","a","v","e","r","a","g","e"," ","s","t","a","y",".">>

LitSatisfactionHead ==
    <<"^"," ","*","*","C","u","s","t","o","m","e","r"," ","S","a","t","i","s","f","a","c","t",
      "i","o","n","*","*",":"," ">>

LitSatisfactionMid ==
    <<"%"," ","p","o","s","i","t","i","v","e"," ","r","e","v","i","e","w","s"," ","(">>

LitSatisfactionTail ==
    <<")",".">>

LitTopSegmentHead ==
    <<"&"," ","*","*","C","u","s","t","o","m","e","r"," ","S","e","g","m","e","n","t","s","*",
      "*",":"," ","T","o","p"," ","s","e","g","m","e","n","t"," ","i","s"," ">>

LitTopSegmentMid ==
    <<" ","w","i","t","h"," ">>

LitTopSegmentTail ==
    <<" ","c","u","s","t","o","m","e","r","s",".">>

LitRecommendPremium ==
    <<"!"," ","*","*","R","e","c","o","m","m","e","n","d","a","t","i","o","n","*","*",":"," ",
      "C","o","n","s","i","d","e","r"," ","p","r","e","m","i","u","m"," ","p","r","i","c","i",
      "n","g"," ","s","t","r","a","t","e","g","i","e","s"," ","t","o"," ","i","n","c","r","e",
      "a","s","e"," ","a","v","e","r","a","g","e"," ","r","e","v","e","n","u","e",".">>

LitRecommendStays ==
    <<"!"," ","*","*","R","e","c","o","m","m","e","n","d","a","t","i","o","n","*","*",":"," ",
      "F","o","c","u","s"," ","o","n"," ","e","x","t","e","n","d","i","n","g"," ","g","u","e",
      "s","t"," ","s","t","a","y","s"," ","w","i","t","h"," ","a","t","t","r","a","c","t","i",
      "v","e"," ","p","a","c","k","a","g","e","s",".">>

LitRecommendMonitor ==
    <<"!"," ","*","*","R","e","c","o","m","m","e","n","d","a","t","i","o","n","*","*",":"," ",
      "C","o","n","t","i","n","u","e"," ","m","o","n","i","t","o","r","i","n","g"," ","k","e",
      "y"," ","m","e","t","r","i","c","s"," ","a","n","d"," ","c","u","s","t","o","m","e","r",
      " ","f","e","e","d","b","a","c","k",".">>

LitRecommendHead ==
    <<"!"," ","*","*","R","e","c","o","m","m","e","n","d","a","t","i","o","n","*","*",":"," ">>

----------------------------------------------------------------------------
(* Text helpers *)

Rep(n, c) == [i \in 1..n |-> c]

IsSpace(c) == c = " "

SetMin(S) == CHOOSE x \in S : \A y \in S : x <= y

SetMax(S) == CHOOSE x \in S : \A y \in S : x >= y

\* str.strip(): drops leading and trailing whitespace, keeps inner whitespace
Strip(s) ==
    LET keep == {i \in 1..Len(s) : ~IsSpace(s[i])}
    IN  IF keep = {} THEN <<>> ELSE SubSeq(s, SetMin(keep), SetMax(keep))

\* sep.join(parts)
RECURSIVE Join(_, _)
Join(sep, parts) ==
    IF Len(parts) = 0 THEN <<>>
    ELSE IF Len(parts) = 1 THEN parts[1]
    ELSE parts[1] \o sep \o Join(sep, Tail(parts))

\* prompt[:n]
Prefix(s, n) == SubSeq(s, 1, IF Len(s) < n THEN Len(s) ELSE n)

StartsWith(s, p) == Len(s) >= Len(p) /\ SubSeq(s, 1, Len(p)) = p

----------------------------------------------------------------------------
(* Numbers and their formatting *)

NaN == <<0, 0>>

Inf == <<1, 0>>

IsFinite(x) == x[2] # 0

Rat(n) == <<n, 1>>

RAdd(x, y) ==
    IF IsFinite(x) /\ IsFinite(y) THEN <<x[1] * y[2] + y[1] * x[2], x[2] * y[2]>>
    ELSE IF x = NaN \/ y = NaN THEN NaN
    ELSE Inf

\* float division; x / 0 is inf (nan for 0 / 0), as numpy computes it
RDiv(x, y) ==
    IF y[1] = 0 THEN (IF x[1] = 0 THEN NaN ELSE Inf)
    ELSE <<x[1] * y[2], x[2] * y[1]>>

\* x < y on floats: false whenever an operand is NaN
RLess(x, y) == IsFinite(x) /\ IsFinite(y) /\ x[1] * y[2] < y[1] * x[2]

REq(x, y) == IsFinite(x) /\ IsFinite(y) /\ x[1] * y[2] = y[1] * x[2]

RECURSIVE RSum(_)
RSum(xs) == IF Len(xs) = 0 THEN Rat(0) ELSE RAdd(xs[1], RSum(Tail(xs)))

\* Series.mean(): NaN on an empty series
RMean(xs) == IF Len(xs) = 0 THEN NaN ELSE RDiv(RSum(xs), Rat(Len(xs)))

Pow10(d) == IF d = 0 THEN 1 ELSE IF d = 1 THEN 10 ELSE 100

DigitChar(k) == <<"0", "1", "2", "3", "4", "5", "6", "7", "8", "9">>[k + 1]

RECURSIVE Digits(_)
Digits(n) == IF n < 10 THEN <<DigitChar(n)>> ELSE Digits(n \div 10) \o <<DigitChar(n % 10)>>

\* the digits of n in groups of three, joined by commas
RECURSIVE Grouped(_)
Grouped(n) ==
    IF n < 1000 THEN Digits(n)
    ELSE LET low == n % 1000
         IN  Grouped(n \div 1000) \o <<",">> \o
             <<DigitChar(low \div 100), DigitChar((low \div 10) % 10), DigitChar(low % 10)>>

\* x scaled by 10^d and rounded to an integer, ties to even (format's rule
\* for a float that holds the tie exactly)
RoundHalfEven(x, d) ==
    LET scaled == x[1] * Pow10(d)
        q == scaled \div x[2]
        r == scaled % x[2]
    IN  IF 2 * r > x[2] \/ (2 * r = x[2] /\ q % 2 = 1) THEN q + 1 ELSE q

\* "nan" and "inf", as format writes the float specials
SpecialText(x) == IF x = NaN THEN LitNan ELSE LitInf

FracDigits(q, d) ==
    IF d = 0 THEN <<>>
    ELSE IF d = 1 THEN <<".", DigitChar(q % 10)>>
    ELSE <<".", DigitChar((q \div 10) % 10), DigitChar(q % 10)>>

\* format(x, ".df") for a non-negative float x, d in 0..2
FormatFixed(x, d) ==
    IF ~IsFinite(x) THEN SpecialText(x)
    ELSE LET q == RoundHalfEven(x, d)
         IN  Digits(q \div Pow10(d)) \o FracDigits(q, d)

\* format(x, ",.0f")
FormatThousands(x) ==
    IF ~IsFinite(x) THEN SpecialText(x) ELSE Grouped(RoundHalfEven(x, 0))

----------------------------------------------------------------------------
(* Data frames: the columns present and the rows.  A row carries a value   *)
(* for every field; only the fields named in columns exist in the frame.   *)

Column(df, c) == [i \in 1..Len(df.rows) |-> df.rows[i][c]]

\* the values of xs in the order of their first appearance
RECURSIVE FirstSeen(_)
FirstSeen(xs) ==
    IF Len(xs) = 0 THEN <<>>
    ELSE LET front == SubSeq(xs, 1, Len(xs) - 1)
             last == xs[Len(xs)]
             seen == FirstSeen(front)
         IN  IF \E i \in 1..Len(front) : front[i] = last THEN seen ELSE Append(seen, last)

CountOf(xs, v) == Cardinality({i \in 1..Len(xs) : xs[i] = v})

\* stable insertion of the pair p into ps, kept in descending order of count
RECURSIVE InsertByCount(_, _)
InsertByCount(ps, p) ==
    IF Len(ps) = 0 THEN <<p>>
    ELSE IF ps[1][2] >= p[2] THEN <<ps[1]>> \o InsertByCount(Tail(ps), p)
    ELSE <<p>> \o ps

RECURSIVE SortByCount(_)
SortByCount(ps) ==
    IF Len(ps) = 0 THEN <<>>
    ELSE InsertByCount(SortByCount(SubSeq(ps, 1, Len(ps) - 1)), ps[Len(ps)])

\* Series.value_counts(): <<value, count>> pairs, most frequent first
ValueCounts(xs) ==
    LET vals == FirstSeen(xs)
    IN  SortByCount([i \in 1..Len(vals) |-> <<vals[i], CountOf(xs, vals[i])>>])

RECURSIVE SumCounts(_)
SumCounts(ps) == IF Len(ps) = 0 THEN 0 ELSE ps[1][2] + SumCounts(Tail(ps))

\* dict.get(key, 0)
GetCount(ps, key) ==
    IF \E i \in 1..Len(ps) : ps[i][1] = key
    THEN ps[CHOOSE i \in 1..Len(ps) : ps[i][1] = key][2]
    ELSE 0

\* Series.mean() over floats: NaN entries are skipped
RMeanSkipNa(xs) == RMean(SelectSeq(xs, LAMBDA x : x # NaN))

LabelText(l) ==
    IF l = "POSITIVE" THEN LitPositive
    ELSE IF l = "NEGATIVE" THEN LitNegative
    ELSE LitNeutral

\* repr of a dict key: a quoted label, or the digits of an integer segment
LabelKey(l) == <<"'">> \o LabelText(l) \o <<"'">>

SegmentKey(k) == Digits(k)

\* str(dict) of a dict whose keys are given by their repr
DictRepr(ps) ==
    <<"{">> \o
    Join(<<",", " ">>, [i \in 1..Len(ps) |-> ps[i][1] \o <<":", " ">> \o Digits(ps[i][2])]) \o
    <<"}">>

LabelDictRepr(ps) == DictRepr([i \in 1..Len(ps) |-> <<LabelKey(ps[i][1]), ps[i][2]>>])

SegmentDictRepr(ps) == DictRepr([i \in 1..Len(ps) |-> <<SegmentKey(ps[i][1]), ps[i][2]>>])

----------------------------------------------------------------------------
(* generate_summary: metrics and prompt *)

ZeroSentimentCounts == <<<<"POSITIVE", 0>>, <<"NEGATIVE", 0>>, <<"NEUTRAL", 0>>>>

SentimentCounts(dr) ==
    IF "sentiment" \notin dr.columns THEN ZeroSentimentCounts
    ELSE ValueCounts(Column(dr, "sentiment"))

TotalRevenue(db) == RSum(Column(db, "total_spent"))

AvgRevenue(db) == RMean(Column(db, "total_spent"))

AvgNights(db) == RMean([i \in 1..Len(db.rows) |-> Rat(db.rows[i].nights)])

TotalNights(db) == RSum([i \in 1..Len(db.rows) |-> Rat(db.rows[i].nights)])

SegmentInfo(db) ==
    IF "segment" \in db.columns
    THEN LitSegments \o SegmentDictRepr(ValueCounts(Column(db, "segment"))) \o LitSentenceEnd
    ELSE <<>>

SpentPerNightInfo(db) ==
    IF "spent_per_night" \in db.columns
    THEN LitSpentPerNight \o FormatFixed(RMeanSkipNa(Column(db, "spent_per_night")), 2) \o LitSentenceEnd
    ELSE IF RLess(Rat(0), TotalNights(db))
         THEN LitSpentPerNight \o FormatFixed(RDiv(TotalRevenue(db), TotalNights(db)), 2) \o LitSentenceEnd
         ELSE <<>>

SampleReviews(dr) == Prefix(Column(dr, "review"), 3)

ReviewSummary(dr) ==
    IF Len(dr.rows) > 0
    THEN LitSampleReviews \o Join(LitReviewSep, SampleReviews(dr)) \o LitSentenceEnd
    ELSE <<>>

ComposePrompt(dr, db) ==
    LitHeader \o
    LitTotalBookings \o Digits(Len(db.rows)) \o LitSentenceEnd \o
    LitTotalRevenue \o FormatThousands(TotalRevenue(db)) \o LitSentenceEnd \o
    LitAvgRevenue \o FormatFixed(AvgRevenue(db), 2) \o LitSentenceEnd \o
    LitAvgNights \o FormatFixed(AvgNights(db), 1) \o LitSentenceEnd \o
    SpentPerNightInfo(db) \o
    SegmentInfo(db) \o
    LitSentiment \o LabelDictRepr(SentimentCounts(dr)) \o LitSentenceEnd \o
    ReviewSummary(dr) \o
    LitInstruction

\* the limit taken as exclusive: a prompt of exactly MaxPromptLen characters is cut too
TruncatePromptAtLimit(p) == IF Len(p) >= MaxPromptLen THEN Prefix(p, MaxPromptLen) \o LitEllipsis ELSE p

TruncatePrompt(p) == IF Len(p) > MaxPromptLen THEN Prefix(p, MaxPromptLen) \o LitEllipsis ELSE p

\* a column the body of the outer try reads is missing: KeyError
ComposeRaises(dr, db) ==
    \/ "total_spent" \notin db.columns
    \/ "nights" \notin db.columns
    \/ (Len(dr.rows) > 0 /\ "review" \notin dr.columns)

----------------------------------------------------------------------------
(* _generate_manual_summary *)

OverviewPart(db, total_revenue_arg) ==
    LitOverviewHead \o Digits(Len(db.rows)) \o LitOverviewMid \o
    FormatThousands(total_revenue_arg) \o LitOverviewTail

PerformancePart(avg_revenue_arg, avg_nights_arg) ==
    LitPerformanceHead \o FormatFixed(avg_revenue_arg, 0) \o LitPerformanceMid \o
    FormatFixed(avg_nights_arg, 1) \o LitPerformanceTail

SatisfactionPart(positive_count, total_reviews) ==
    LitSatisfactionHead \o FormatFixed(<<positive_count * 100, total_reviews>>, 1) \o
    LitSatisfactionMid \o Digits(positive_count) \o <<"/">> \o Digits(total_reviews) \o
    LitSatisfactionTail

\* the branch that counts the frame's own sentiment column left out
SatisfactionPartsCountsOnly(dr, counts) ==
    IF Len(counts) > 0 /\ SumCounts(counts) > 0
    THEN <<SatisfactionPart(GetCount(counts, "POSITIVE"), SumCounts(counts))>>
    ELSE <<>>

SatisfactionParts(dr, counts) ==
    IF Len(counts) > 0 /\ SumCounts(counts) > 0
    THEN <<SatisfactionPart(GetCount(counts, "POSITIVE"), SumCounts(counts))>>
    ELSE IF "sentiment" \in dr.columns /\ Len(dr.rows) > 0
         THEN <<SatisfactionPart(CountOf(Column(dr, "sentiment"), "POSITIVE"), Len(dr.rows))>>
         ELSE <<>>

\* the last entry of the counts taken instead of the first
TopSegmentPartsLeast(db) ==
    IF "segment" \in db.columns /\ Len(db.rows) > 0
    THEN LET segment_counts == ValueCounts(Column(db, "segment"))
         IN  <<LitTopSegmentHead \o Digits(segment_counts[Len(segment_counts)][1]) \o LitTopSegmentMid \o
               Digits(segment_counts[Len(segment_counts)][2]) \o LitTopSegmentTail>>
    ELSE <<>>

TopSegmentParts(db) ==
    IF "segment" \in db.columns /\ Len(db.rows) > 0
    THEN LET segment_counts == ValueCounts(Column(db, "segment"))
         IN  <<LitTopSegmentHead \o Digits(segment_counts[1][1]) \o LitTopSegmentMid \o
               Digits(segment_counts[1][2]) \o LitTopSegmentTail>>
    ELSE <<>>

\* the two tests in the other order
RecommendationNightsFirst(avg_revenue_arg, avg_nights_arg) ==
    IF RLess(avg_nights_arg, Rat(2)) THEN LitRecommendStays
    ELSE IF RLess(avg_revenue_arg, Rat(300)) THEN LitRecommendPremium
    ELSE LitRecommendMonitor

Recommendation(avg_revenue_arg, avg_nights_arg) ==
    IF RLess(avg_revenue_arg, Rat(300)) THEN LitRecommendPremium
    ELSE IF RLess(avg_nights_arg, Rat(2)) THEN LitRecommendStays
    ELSE LitRecommendMonitor

RecommendationParts(db, avg_revenue_arg, avg_nights_arg) ==
    IF Len(db.rows) > 0 THEN <<Recommendation(avg_revenue_arg, avg_nights_arg)>> ELSE <<>>

\* the two basic-metrics sentences left out
ManualSummaryPartsOptionalOnly(dr, db, args) ==
    SatisfactionParts(dr, args.sentiment_counts) \o
    TopSegmentParts(db) \o
    RecommendationParts(db, args.avg_revenue, args.avg_nights)

ManualSummaryParts(dr, db, args) ==
    <<OverviewPart(db, args.total_revenue),
      PerformancePart(args.avg_revenue, args.avg_nights)>> \o
    SatisfactionParts(dr, args.sentiment_counts) \o
    TopSegmentParts(db) \o
    RecommendationParts(db, args.avg_revenue, args.avg_nights)

GenerateManualSummary(dr, db, args) == Join(<<" ">>, ManualSummaryParts(dr, db, args))

----------------------------------------------------------------------------
(* Inputs *)

\* candidate booking rows: nights, total_spent (a float, here in halves), segment
BookingChoices ==
    << [nights |-> 2, total_spent |-> <<200, 1>>, segment |-> 0],
       [nights |-> 1, total_spent |-> <<100, 1>>, segment |-> 1],
       [nights |-> 2, total_spent |-> <<1001, 2>>, segment |-> 2],
       [nights |-> 0, total_spent |-> <<50, 1>>, segment |-> 1] >>

\* candidate review rows
ReviewChoices ==
    << [review |-> Rep(ShortReviewLen, "r"), sentiment |-> "POSITIVE"],
       [review |-> Rep(LongReviewLen, "r"), sentiment |-> "NEGATIVE"] >>

\* the non-decreasing index sequences of length at most n over 1..k
Picks(k, n) ==
    UNION {{s \in [1..m -> 1..k] : \A i \in 1..m : \A j \in 1..m : i < j => s[i] <= s[j]} : m \in 0..n}

BookingRow(i, c) ==
    [customer_id |-> i, nights |-> c.nights, total_spent |-> c.total_spent,
     segment |-> c.segment, spent_per_night |-> RDiv(c.total_spent, Rat(c.nights))]

BookingColumnSets ==
    { {"customer_id", "nights", "total_spent"},
      {"customer_id", "nights", "total_spent", "segment", "spent_per_night"},
      {"customer_id", "total_spent", "segment"} }

\* the frames handed to segment_customers: rows in any order
SegBookingFrames ==
    { [columns |-> cs, rows |-> [i \in 1..Len(s) |-> BookingRow(i, BookingChoices[s[i]])]] :
        cs \in BookingColumnSets,
        s \in UNION {[1..m -> 1..Len(BookingChoices)] : m \in 0..MaxSegBookings} }

ReviewColumnSets == { {"review", "sentiment"}, {"review"}, {"sentiment"} }

BookingFrames ==
    { [columns |-> cs, rows |-> [i \in 1..Len(s) |-> BookingRow(i, BookingChoices[s[i]])]] :
        cs \in BookingColumnSets, s \in Picks(Len(BookingChoices), MaxBookings) }

ReviewFrames ==
    { [columns |-> cs, rows |-> [i \in 1..Len(s) |-> ReviewChoices[s[i]]]] :
        cs \in ReviewColumnSets, s \in Picks(Len(ReviewChoices), MaxReviews) }

Pad(n) == Rep(n, " ")

\* what the external summarizer can do: raise, return no text, or return a text
SummarizerTexts ==
    { Pad(a) \o Rep(b, "x") \o Pad(a) : a \in {0, MaxPad}, b \in {0, 9, 10} }
    \cup { Rep(5, "x") \o Pad(1) \o Rep(4, "x"), Rep(4, "x") \o Pad(1) \o Rep(4, "x") }

SummarizerOutcomes ==
    { [kind |-> "raise", text |-> <<>>], [kind |-> "none", text |-> <<>>] }
    \cup { [kind |-> "text", text |-> t] : t \in SummarizerTexts }

----------------------------------------------------------------------------
(* generate_summary as a state machine *)

VARIABLES
    df_reviews,        \* argument of generate_summary
    df_bookings,       \* argument of generate_summary and of segment_customers
    pc,                \* position in generate_summary
    sentiment_counts,  \* locals of generate_summary
    total_revenue,
    avg_revenue,
    avg_nights,
    prompt,
    manual_args,       \* arguments handed to _generate_manual_summary
    summary_parts,     \* local of _generate_manual_summary
    result,            \* the returned string
    returned,          \* generate_summary has returned
    outcome,           \* what the summarizer did when it was invoked
    path,              \* the positions of generate_summary visited so far
    seg_pc,            \* position in segment_customers and its caller
    df,                \* locals of segment_customers
    scaled,
    labels,
    explanation,
    segments,          \* what the caller received
    page_bookings,     \* the caller's frame, given the segment column
    summarizer_calls,  \* invocations of the summarizer in this generate_summary call
    manual_runs,       \* runs of _generate_manual_summary in this generate_summary call
    summarizer_instances, \* summarization pipelines constructed in this process
    classifier_instances, \* sentiment pipelines constructed in this process
    classifier_outcome,   \* what the classifier did in this run of the script
    reviews_csv,       \* what load_data returns for the reviews
    app_pc,            \* position in main.py
    page,              \* the dashboard chosen in the sidebar
    runs,              \* runs of the script so far
    per_night,         \* the revenue-per-night figure last computed, and where
    top_revenue_booking,  \* local of create_summary_insights
    bookings_before,   \* the frame as it was when segment_customers was entered
    kmeans_fits,       \* the fits made so far with random_state=42: matrix and labels
    call_log,          \* the frames segment_customers was given and the labels it returned
    calls              \* calls of segment_customers so far

summaryVars == <<df_reviews, pc, sentiment_counts, total_revenue, avg_revenue, avg_nights,
                 prompt, manual_args, summary_parts, result, returned, outcome, path,
                 summarizer_calls, manual_runs, summarizer_instances>>

segmentVars == <<seg_pc, df, scaled, labels, explanation, segments, page_bookings,
                 bookings_before, kmeans_fits, call_log, calls>>

appVars == <<classifier_instances, classifier_outcome, reviews_csv, app_pc, page, runs,
             per_night, top_revenue_booking>>

vars == <<df_bookings, summaryVars, segmentVars, appVars>>

NoArgs == [sentiment_counts |-> <<>>, total_revenue |-> Rat(0), avg_revenue |-> Rat(0), avg_nights |-> Rat(0)]

NoOutcome == [kind |-> "unused", text |-> <<>>]

NoFrame == [columns |-> {}, rows |-> <<>>]

\* segment_customers is not running
SegmentIdle ==
    /\ seg_pc = "IDLE"
    /\ df = NoFrame
    /\ scaled = <<>>
    /\ labels = <<>>
    /\ explanation = <<>>
    /\ segments = <<>>
    /\ page_bookings = NoFrame
    /\ bookings_before = NoFrame
    /\ kmeans_fits = {}
    /\ call_log = <<>>
    /\ calls = 0

NoFigure == [site |-> "none", value |-> NaN, divided |-> FALSE]

NoBooking == [customer_id |-> 0, nights |-> 0, total_spent |-> NaN, segment |-> 0, spent_per_night |-> NaN]

\* main.py is not running
AppIdle ==
    /\ classifier_instances = 0
    /\ classifier_outcome = "unused"
    /\ reviews_csv = NoFrame
    /\ app_pc = "IDLE"
    /\ page = "none"
    /\ runs = 0
    /\ per_night = NoFigure
    /\ top_revenue_booking = NoBooking

\* generate_summary is entered
SummaryEntered ==
    /\ pc = "START"
    /\ sentiment_counts = <<>>
    /\ total_revenue = NaN
    /\ avg_revenue = NaN
    /\ avg_nights = NaN
    /\ prompt = <<>>
    /\ manual_args = NoArgs
    /\ summary_parts = <<>>
    /\ result = <<>>
    /\ returned = FALSE
    /\ outcome = NoOutcome
    /\ path = <<"START">>
    /\ summarizer_calls = 0
    /\ manual_runs = 0

Init ==
    /\ df_reviews \in ReviewFrames
    /\ df_bookings \in BookingFrames
    /\ SummaryEntered
    /\ summarizer_instances = 0
    /\ SegmentIdle
    /\ AppIdle

\* lines 10-65: the metrics and the prompt; a missing column raises into the outer handler
Compose ==
    /\ pc = "START"
    /\ IF ComposeRaises(df_reviews, df_bookings)
       THEN /\ pc' = "ERROR"
            /\ UNCHANGED <<sentiment_counts, total_revenue, avg_revenue, avg_nights, prompt>>
       ELSE /\ pc' = "TRY_AI"
            /\ sentiment_counts' = SentimentCounts(df_reviews)
            /\ total_revenue' = TotalRevenue(df_bookings)
            /\ avg_revenue' = AvgRevenue(df_bookings)
            /\ avg_nights' = AvgNights(df_bookings)
            /\ prompt' = TruncatePrompt(ComposePrompt(df_reviews, df_bookings))
    /\ path' = Append(path, pc')
    /\ UNCHANGED <<segmentVars, appVars, df_reviews, df_bookings, manual_args, summary_parts, result, returned, outcome,
                   summarizer_calls, manual_runs, summarizer_instances>>

\* line 70 constructs a pipeline on every call; when the try body raised, the
\* constructor may be what raised
PipelinesMade(o) == IF o.kind = "raise" THEN {0, 1} ELSE {1}

\* the length taken without strip()
AcceptedUntrimmed(o) == o.kind = "text" /\ ~(Len(o.text) = 0 \/ Len(o.text) < MinSummaryLen)

\* the bound taken as exclusive
AcceptedAboveBound(o) == o.kind = "text" /\ ~(Len(o.text) = 0 \/ Len(Strip(o.text)) <= MinSummaryLen)

\* line 75: the returned text is usable
Accepted(o) == o.kind = "text" /\ ~(Len(o.text) = 0 \/ Len(Strip(o.text)) < MinSummaryLen)

\* an unusable answer retried instead of handed to the handler
TryAIRetry ==
    /\ pc = "TRY_AI"
    /\ \E o \in SummarizerOutcomes :
        /\ outcome' = o
        /\ summarizer_calls' = summarizer_calls + 1
        /\ \E made \in PipelinesMade(o) : summarizer_instances' = summarizer_instances + made
        /\ IF Accepted(o)
           THEN /\ pc' = "SUCCESS"
                /\ result' = o.text
                /\ returned' = TRUE
           ELSE /\ pc' = "TRY_AI"
                /\ UNCHANGED <<result, returned>>
    /\ path' = Append(path, pc')
    /\ UNCHANGED <<segmentVars, appVars, df_reviews, df_bookings, sentiment_counts, total_revenue, avg_revenue,
                   avg_nights, prompt, manual_args, summary_parts, manual_runs>>

\* lines 68-76 and 83: the summarizer is invoked with the prompt
TryAI ==
    /\ pc = "TRY_AI"
    /\ \E o \in SummarizerOutcomes :
        /\ outcome' = o
        /\ summarizer_calls' = summarizer_calls + 1
        /\ \E made \in PipelinesMade(o) : summarizer_instances' = summarizer_instances + made
        /\ IF Accepted(o)
           THEN /\ pc' = "SUCCESS"
                /\ result' = o.text
                /\ returned' = TRUE
           ELSE /\ pc' = "FAIL"
                /\ UNCHANGED <<result, returned>>
    /\ path' = Append(path, pc')
    /\ UNCHANGED <<segmentVars, appVars, df_reviews, df_bookings, sentiment_counts, total_revenue, avg_revenue,
                   avg_nights, prompt, manual_args, summary_parts, manual_runs>>

\* the inner handler asks the summarizer again instead of building the narrative
InnerExceptRetry ==
    /\ pc = "FAIL"
    /\ pc' = "TRY_AI"
    /\ manual_args' = [sentiment_counts |-> sentiment_counts, total_revenue |-> total_revenue,
                       avg_revenue |-> avg_revenue, avg_nights |-> avg_nights]
    /\ path' = Append(path, pc')
    /\ UNCHANGED <<segmentVars, appVars, df_reviews, df_bookings, sentiment_counts, total_revenue, avg_revenue,
                   avg_nights, prompt, summary_parts, result, returned, outcome,
                   summarizer_calls, manual_runs, summarizer_instances>>

\* lines 78-81: the inner handler hands the computed metrics to the manual builder
InnerExcept ==
    /\ pc = "FAIL"
    /\ pc' = "MANUAL_FALLBACK"
    /\ manual_args' = [sentiment_counts |-> sentiment_counts, total_revenue |-> total_revenue,
                       avg_revenue |-> avg_revenue, avg_nights |-> avg_nights]
    /\ path' = Append(path, pc')
    /\ UNCHANGED <<segmentVars, appVars, df_reviews, df_bookings, sentiment_counts, total_revenue, avg_revenue,
                   avg_nights, prompt, summary_parts, result, returned, outcome,
                   summarizer_calls, manual_runs, summarizer_instances>>

\* lines 85-88: the outer handler hands empty metrics to the manual builder
OuterExcept ==
    /\ pc = "ERROR"
    /\ pc' = "MANUAL_FALLBACK"
    /\ manual_args' = NoArgs
    /\ path' = Append(path, pc')
    /\ UNCHANGED <<segmentVars, appVars, df_reviews, df_bookings, sentiment_counts, total_revenue, avg_revenue,
                   avg_nights, prompt, summary_parts, result, returned, outcome,
                   summarizer_calls, manual_runs, summarizer_instances>>

\* lines 90-134, then the return of lines 83 or 88
ManualFallback ==
    /\ pc = "MANUAL_FALLBACK"
    /\ summary_parts' = ManualSummaryParts(df_reviews, df_bookings, manual_args)
    /\ result' = GenerateManualSummary(df_reviews, df_bookings, manual_args)
    /\ returned' = TRUE
    /\ manual_runs' = manual_runs + 1
    /\ pc' = "SUCCESS"
    /\ path' = Append(path, pc')
    /\ UNCHANGED <<segmentVars, appVars, df_reviews, df_bookings, sentiment_counts, total_revenue, avg_revenue,
                   avg_nights, prompt, manual_args, outcome, summarizer_calls, summarizer_instances>>

Next == Compose \/ TryAI \/ InnerExcept \/ OuterExcept \/ ManualFallback

Spec == Init /\ [][Next]_vars

----------------------------------------------------------------------------
(* Properties of generate_summary *)

Range(s) == {s[i] : i \in 1..Len(s)}

IsPrefix(p, q) == Len(p) <= Len(q) /\ p = SubSeq(q, 1, Len(p))

EndsWith(s, p) == Len(s) >= Len(p) /\ SubSeq(s, Len(s) - Len(p) + 1, Len(s)) = p

\* the positions at which generate_summary has a step to take: each action is guarded
\* by its position alone
Running == pc \in {"START", "TRY_AI", "FAIL", "ERROR", "MANUAL_FALLBACK"}

AiPath == <<"START", "TRY_AI", "SUCCESS">>

FallbackPath == <<"START", "TRY_AI", "FAIL", "MANUAL_FALLBACK", "SUCCESS">>

UltimatePath == <<"START", "ERROR", "MANUAL_FALLBACK", "SUCCESS">>

\* the call returned what the manual builder made
ManualReturned == returned /\ "MANUAL_FALLBACK" \in Range(path)

\* the metrics of the two frames
ComputedArgs ==
    [sentiment_counts |-> SentimentCounts(df_reviews), total_revenue |-> TotalRevenue(df_bookings),
     avg_revenue |-> AvgRevenue(df_bookings), avg_nights |-> AvgNights(df_bookings)]

\* C1: for every input and whatever the summarizer does, generate_summary goes on
\* until it returns, within the steps of its longest path, and the string it returns
\* is neither empty nor all whitespace.
C1_SummaryNeverBlank ==
    /\ returned => Len(Strip(result)) > 0
    /\ ~returned => Running
    /\ Len(path) <= Len(FallbackPath)

C1_Witness == returned /\ outcome.kind = "raise" /\ Len(Strip(result)) > 0

\* the summarizer raised, or returned a text shorter than 10 once trimmed
Unusable(o) == o.kind = "raise" \/ (o.kind = "text" /\ Len(Strip(o.text)) < 10)

\* C2: when the summarizer raises or returns a text of trimmed length below 10, the
\* call is classified FAIL, goes on to return (nothing propagates), and what it
\* returns is the manual narrative over the computed metrics.
C2_FailureFallsBack ==
    Unusable(outcome) =>
        /\ "FAIL" \in Range(path)
        /\ ~returned => Running
        /\ returned => result = GenerateManualSummary(df_reviews, df_bookings, ComputedArgs)

C2_Witness ==
    /\ returned
    /\ outcome.kind = "text" /\ Len(Strip(outcome.text)) = 9 /\ Len(outcome.text) > 10
    /\ result = GenerateManualSummary(df_reviews, df_bookings, ComputedArgs)

\* C3: the summarizer's text is returned, unchanged, exactly when it is a text whose
\* trimmed length is at least 10.
C3_AcceptedIffLongEnough ==
    (returned /\ outcome # NoOutcome) =>
        (result = outcome.text <=> (outcome.kind = "text" /\ Len(Strip(outcome.text)) >= 10))

C3_Witness ==
    /\ returned
    /\ outcome.kind = "text" /\ Len(Strip(outcome.text)) = 10 /\ Len(outcome.text) > 10
    /\ result = outcome.text

\* C4 as stated: every execution follows START, TRY_AI, then SUCCESS or FAIL,
\* MANUAL_FALLBACK, SUCCESS; the manual fallback is never entered without the
\* summarizer having been attempted; every execution ends in SUCCESS with a result.
C4_Original ==
    /\ IsPrefix(path, AiPath) \/ IsPrefix(path, FallbackPath)
    /\ returned <=> pc = "SUCCESS"
    /\ returned => Len(result) > 0
    /\ ~returned => Running

\* C4 amended: as stated, or, when computing the metrics and the prompt raises, from
\* START through the outer handler to MANUAL_FALLBACK and SUCCESS with the summarizer
\* never attempted; every execution ends in SUCCESS with a result.
C4_Amended ==
    /\ \/ IsPrefix(path, AiPath)
       \/ IsPrefix(path, FallbackPath)
       \/ IsPrefix(path, UltimatePath) /\ ComposeRaises(df_reviews, df_bookings)
    /\ (ComposeRaises(df_reviews, df_bookings) /\ Len(path) > 1) => IsPrefix(path, UltimatePath)
    /\ pc = path[Len(path)]
    /\ returned <=> pc = "SUCCESS"
    /\ returned => Len(result) > 0
    /\ ~returned => Running

C4_Witness == returned /\ path = UltimatePath

\* C5: the prompt handed to the summarizer is the composed text when that has at most
\* 1000 characters, and otherwise its first 1000 characters followed by "...", 1003
\* characters in all; it is never longer.
C5_PromptBounded ==
    pc = "TRY_AI" =>
        LET composed == ComposePrompt(df_reviews, df_bookings)
        IN  /\ Len(composed) <= 1000 => prompt = composed
            /\ Len(composed) > 1000 =>
                  /\ prompt = SubSeq(composed, 1, 1000) \o <<".", ".", ".">>
                  /\ Len(prompt) = 1003
            /\ Len(prompt) <= 1003

C5_Witness ==
    pc = "TRY_AI" /\ Len(ComposePrompt(df_reviews, df_bookings)) = 1001 /\ Len(prompt) = 1003

\* C9 as stated: whenever the manual narrative is returned, on any path, its overview
\* sentence carries the sum of total_spent over the bookings, formatted as the prompt
\* formats the total revenue.
C9_RevenueFigureIsTotal ==
    (ManualReturned /\ "total_spent" \in df_bookings.columns) =>
        StartsWith(result, OverviewPart(df_bookings, TotalRevenue(df_bookings)))

RecommendationIndexes ==
    {i \in 1..Len(summary_parts) : StartsWith(summary_parts[i], LitRecommendHead)}

\* the sentence the priority rule picks for the averages handed to the builder
PrioritySentence ==
    IF RLess(manual_args.avg_revenue, Rat(300)) THEN LitRecommendPremium
    ELSE IF RLess(manual_args.avg_nights, Rat(2)) THEN LitRecommendStays
    ELSE LitRecommendMonitor

\* C10 as stated: every manual narrative holds exactly one recommendation sentence,
\* the one the priority rule picks.
C10_Original ==
    ManualReturned =>
        /\ result = Join(<<" ">>, summary_parts)
        /\ Cardinality(RecommendationIndexes) = 1
        /\ \A i \in RecommendationIndexes : summary_parts[i] = PrioritySentence

\* C10 amended: a manual narrative over a non-empty booking dataset holds exactly one
\* recommendation sentence, the one the priority rule picks for the averages handed
\* to the builder; over an empty dataset it holds none.
C10_Amended ==
    ManualReturned =>
        /\ result = Join(<<" ">>, summary_parts)
        /\ Len(df_bookings.rows) > 0 =>
              /\ Cardinality(RecommendationIndexes) = 1
              /\ \A i \in RecommendationIndexes : summary_parts[i] = PrioritySentence
              /\ EndsWith(result, PrioritySentence)
        /\ Len(df_bookings.rows) = 0 => RecommendationIndexes = {}

C10_Witness ==
    /\ ManualReturned
    /\ outcome.kind = "raise"
    /\ REq(manual_args.avg_revenue, Rat(150)) /\ REq(manual_args.avg_nights, <<3, 2>>)
    /\ EndsWith(result, LitRecommendPremium)
    /\ Cardinality(RecommendationIndexes) = 1

\* the parts of the manual narrative that are satisfaction sentences
SatisfactionSentences ==
    {i \in 1..Len(summary_parts) : StartsWith(summary_parts[i], LitSatisfactionHead)}

\* the satisfaction sentence for positive out of total reviews
SatisfactionText(positive, total) ==
    LitSatisfactionHead \o FormatFixed(<<positive * 100, total>>, 1) \o LitSatisfactionMid \o
    Digits(positive) \o <<"/">> \o Digits(total) \o LitSatisfactionTail

\* C11 as stated: the manual narrative has a satisfaction sentence only if the
\* sentiment counts passed to the builder are non-empty; with empty or zeroed counts
\* there is none; an emitted sentence reports positive/total of the counts and the
\* rate positive/total*100.
C11_Original ==
    ManualReturned =>
        LET counts == manual_args.sentiment_counts
        IN  /\ SatisfactionSentences # {} => Len(counts) > 0
            /\ (Len(counts) = 0 \/ SumCounts(counts) = 0) => SatisfactionSentences = {}
            /\ \A i \in SatisfactionSentences :
                  summary_parts[i] = SatisfactionText(GetCount(counts, "POSITIVE"), SumCounts(counts))

\* C11 amended: the manual narrative has exactly one satisfaction sentence when the
\* counts passed to the builder have a positive total, and also when they have not but
\* the reviews carry a sentiment column and at least one row; otherwise it has none
\* (so none for the zeroed map of absent sentiment).  The sentence reports
\* positive/total and the rate positive/total*100, taken from the counts in the first
\* case and from the sentiment column in the second.
C11_Amended ==
    ManualReturned =>
        LET counts == manual_args.sentiment_counts
            fromCounts == Len(counts) > 0 /\ SumCounts(counts) > 0
            fromFrame == ~fromCounts /\ "sentiment" \in df_reviews.columns /\ Len(df_reviews.rows) > 0
            positive == IF fromCounts THEN GetCount(counts, "POSITIVE")
                        ELSE CountOf(Column(df_reviews, "sentiment"), "POSITIVE")
            total == IF fromCounts THEN SumCounts(counts) ELSE Len(df_reviews.rows)
        IN  /\ Cardinality(SatisfactionSentences) = IF fromCounts \/ fromFrame THEN 1 ELSE 0
            /\ counts = ZeroSentimentCounts => SatisfactionSentences = {}
            /\ \A i \in SatisfactionSentences : summary_parts[i] = SatisfactionText(positive, total)

C11_Witness ==
    /\ returned
    /\ path = UltimatePath
    /\ manual_args.sentiment_counts = <<>>
    /\ SatisfactionSentences # {}

\* the parts of the manual narrative that are top-segment sentences
TopSegmentSentences ==
    {i \in 1..Len(summary_parts) : StartsWith(summary_parts[i], LitTopSegmentHead)}

\* C12: the manual narrative has a top-segment sentence exactly when the bookings
\* carry a segment column and have at least one row; the segment it names has at
\* least as many members as every other segment, and the size it reports is that
\* segment's member count.
C12_TopSegmentMostPopulous ==
    ManualReturned =>
        LET counted == "segment" \in df_bookings.columns /\ Len(df_bookings.rows) > 0
            members == Column(df_bookings, "segment")
        IN  /\ Cardinality(TopSegmentSentences) = IF counted THEN 1 ELSE 0
            /\ \A i \in TopSegmentSentences :
                  \E s \in Range(members) :
                     /\ summary_parts[i] = LitTopSegmentHead \o Digits(s) \o LitTopSegmentMid \o
                                            Digits(CountOf(members, s)) \o LitTopSegmentTail
                     /\ \A t \in Range(members) : CountOf(members, t) <= CountOf(members, s)

C12_Witness ==
    /\ ManualReturned
    /\ TopSegmentSentences # {}
    /\ LET members == Column(df_bookings, "segment")
       IN  \E s \in Range(members) : \E t \in Range(members) : CountOf(members, s) < CountOf(members, t)

\* C19: within one generate_summary call the summarizer is invoked at most once, the
\* manual builder runs at most once, and once the manual fallback has started the call
\* is never again at the position where the summarizer is invoked.
C19_SingleAttempt ==
    /\ summarizer_calls <= 1
    /\ manual_runs <= 1
    /\ summarizer_calls = 0 <=> outcome = NoOutcome
    /\ manual_runs = 0 <=> summary_parts = <<>>
    /\ "MANUAL_FALLBACK" \in Range(path) => pc \in {"MANUAL_FALLBACK", "SUCCESS"}
    /\ CountOf(path, "TRY_AI") <= 1
    /\ CountOf(path, "MANUAL_FALLBACK") <= 1

C19_Witness ==
    /\ returned
    /\ path = FallbackPath
    /\ summarizer_calls = 1
    /\ manual_runs = 1

----------------------------------------------------------------------------
(* segment_customers and the Customer Segmentation page that calls it *)

\* line 7: df["spent_per_night"] = df["total_spent"] / df["nights"], on a copy
WithSpentPerNight(frame) ==
    [columns |-> frame.columns \cup {"spent_per_night"},
     rows |-> [i \in 1..Len(frame.rows) |->
                 [frame.rows[i] EXCEPT !.spent_per_night =
                     RDiv(frame.rows[i].total_spent, Rat(frame.rows[i].nights))]]]

\* line 8: df[["nights", "total_spent", "spent_per_night"]]
Features(frame) ==
    [i \in 1..Len(frame.rows) |->
        <<Rat(frame.rows[i].nights), frame.rows[i].total_spent, frame.rows[i].spent_per_night>>]

HasInf(X) == \E i \in 1..Len(X) : \E j \in 1..3 : X[i][j] = Inf

HasNaN(X) == \E i \in 1..Len(X) : \E j \in 1..3 : X[i][j] = NaN

\* StandardScaler().fit_transform rejects an empty matrix and infinities (NaN passes)
ScalerRaises(X) == Len(X) = 0 \/ HasInf(X)

\* a fit of two clusters
KMeansRaisesTwoClusters(X) == HasNaN(X) \/ Len(X) < 2

\* KMeans(n_clusters=3).fit rejects NaN and fewer samples than clusters
KMeansRaises(X) == HasNaN(X) \/ Len(X) < NClusters

\* the label sequences a fit of NClusters centroids can give: one label per row,
\* each in range(NClusters), equal rows labelled alike
KMeansLabelings(X) ==
    { l \in [1..Len(X) -> 0..(NClusters - 1)] :
        \A i \in 1..Len(X) : \A j \in 1..Len(X) : X[i] = X[j] => l[i] = l[j] }

\* rows[mask]: the rows at the positions in keep, in order
Masked(rows, keep) ==
    LET f[k \in 0..Len(rows)] ==
            IF k = 0 THEN <<>>
            ELSE IF k \in keep THEN Append(f[k - 1], rows[k]) ELSE f[k - 1]
    IN  f[Len(rows)]

\* the mask taken as labels >= i
GroupAtLeast(frame, ls, i) == Masked(frame.rows, {k \in 1..Len(ls) : ls[k] >= i})

\* df[labels == i]
Group(frame, ls, i) == Masked(frame.rows, {k \in 1..Len(ls) : ls[k] = i})

\* lines 15-21: one line of the explanation
ExplainSegment(frame, ls, i) ==
    LET group == Group(frame, ls, i)
    IN  LitSegment \o Digits(i) \o
        LitExplainNights \o FormatFixed(RMean([k \in 1..Len(group) |-> Rat(group[k].nights)]), 2) \o
        LitExplainSpent \o FormatFixed(RMean([k \in 1..Len(group) |-> group[k].total_spent]), 2) \o
        LitExplainPerNight \o FormatFixed(RMeanSkipNa([k \in 1..Len(group) |-> group[k].spent_per_night]), 2) \o
        LitExplainCount \o Digits(Len(group))

\* the derived column written to the frame that was passed in, no copy taken
DeriveFeaturesInPlace ==
    /\ seg_pc = "IDLE"
    /\ bookings_before' = df_bookings
    /\ calls' = calls + 1
    /\ IF {"total_spent", "nights"} \subseteq df_bookings.columns
       THEN /\ df' = WithSpentPerNight(df_bookings)
            /\ df_bookings' = WithSpentPerNight(df_bookings)
            /\ seg_pc' = "SCALE"
       ELSE /\ seg_pc' = "RAISED"
            /\ UNCHANGED <<df, df_bookings>>
    /\ UNCHANGED <<summaryVars, appVars, scaled, labels, explanation, segments, page_bookings,
                   kmeans_fits, call_log>>

\* lines 6-8: the copy, the derived column and the feature matrix; a missing column raises
DeriveFeatures ==
    /\ seg_pc = "IDLE"
    /\ bookings_before' = df_bookings
    /\ calls' = calls + 1
    /\ IF {"total_spent", "nights"} \subseteq df_bookings.columns
       THEN /\ df' = WithSpentPerNight(df_bookings)
            /\ seg_pc' = "SCALE"
       ELSE /\ seg_pc' = "RAISED"
            /\ UNCHANGED df
    /\ UNCHANGED <<df_bookings, summaryVars, appVars, scaled, labels, explanation, segments,
                   page_bookings, kmeans_fits, call_log>>

\* line 9: the scaler's output enters the model only through the clustering it feeds,
\* so the matrix is carried as derived
Scale ==
    /\ seg_pc = "SCALE"
    /\ IF ScalerRaises(Features(df))
       THEN /\ seg_pc' = "RAISED"
            /\ UNCHANGED scaled
       ELSE /\ scaled' = Features(df)
            /\ seg_pc' = "FIT"
    /\ UNCHANGED <<df_bookings, summaryVars, appVars, df, labels, explanation, segments,
                   page_bookings, bookings_before, kmeans_fits, call_log, calls>>

\* the fits of matrix X made so far
FitsOf(X) == {f \in kmeans_fits : f[1] = X}

\* KMeans(n_clusters=3, random_state=42) on matrix X: with the seed fixed the fit is a
\* function of the matrix, so what a fit of X gave before it gives again
SeededLabelings(X) ==
    IF FitsOf(X) # {} THEN {f[2] : f \in FitsOf(X)} ELSE KMeansLabelings(X)

\* KMeans without random_state: every fit draws its own initial centroids
FitUnseeded ==
    /\ seg_pc = "FIT"
    /\ IF KMeansRaises(scaled)
       THEN /\ seg_pc' = "RAISED"
            /\ UNCHANGED <<labels, kmeans_fits>>
       ELSE /\ labels' \in KMeansLabelings(scaled)
            /\ kmeans_fits' = kmeans_fits \cup {<<scaled, labels'>>}
            /\ seg_pc' = "EXPLAIN"
    /\ UNCHANGED <<df_bookings, summaryVars, appVars, df, scaled, explanation, segments,
                   page_bookings, bookings_before, call_log, calls>>

\* lines 10-11
Fit ==
    /\ seg_pc = "FIT"
    /\ IF KMeansRaises(scaled)
       THEN /\ seg_pc' = "RAISED"
            /\ UNCHANGED <<labels, kmeans_fits>>
       ELSE /\ labels' \in SeededLabelings(scaled)
            /\ kmeans_fits' = kmeans_fits \cup {<<scaled, labels'>>}
            /\ seg_pc' = "EXPLAIN"
    /\ UNCHANGED <<df_bookings, summaryVars, appVars, df, scaled, explanation, segments,
                   page_bookings, bookings_before, call_log, calls>>

\* lines 13-25: the explanation is built and printed, the labels are returned
Explain ==
    /\ seg_pc = "EXPLAIN"
    /\ explanation' = [i \in 1..NClusters |-> ExplainSegment(df, labels, i - 1)]
    /\ segments' = labels
    /\ call_log' = Append(call_log, [given |-> df_bookings, labels |-> labels])
    /\ seg_pc' = "RETURNED"
    /\ UNCHANGED <<df_bookings, summaryVars, appVars, df, scaled, labels, page_bookings,
                   bookings_before, kmeans_fits, calls>>

\* main.py line 114: df_bookings["segment"] = segments
AssignSegments ==
    /\ seg_pc = "RETURNED"
    /\ page_bookings' =
          [columns |-> df_bookings.columns \cup {"segment"},
           rows |-> [i \in 1..Len(df_bookings.rows) |->
                       [df_bookings.rows[i] EXCEPT !.segment = segments[i]]]]
    /\ seg_pc' = "PAGE_DONE"
    /\ UNCHANGED <<df_bookings, summaryVars, appVars, df, scaled, labels, explanation, segments,
                   bookings_before, kmeans_fits, call_log, calls>>

NoReviews == [columns |-> {"review"}, rows |-> <<>>]

SegInit ==
    /\ df_bookings \in SegBookingFrames
    /\ df_reviews = NoReviews
    /\ SummaryEntered
    /\ summarizer_instances = 0
    /\ SegmentIdle
    /\ AppIdle

SegNext == DeriveFeatures \/ Scale \/ Fit \/ Explain \/ AssignSegments

SegSpec == SegInit /\ [][SegNext]_vars

----------------------------------------------------------------------------
(* The Customer Segmentation page run again and again in one process *)

MaxCalls == 3

\* the rows of the frames of the repeated runs, as indexes into BookingChoices
RepeatPicks == { <<1, 1, 2>>, <<1, 2, 2>>, <<1, 2>> }

RepeatFrames ==
    { [columns |-> {"customer_id", "nights", "total_spent"},
       rows |-> [i \in 1..Len(s) |-> BookingRow(i, BookingChoices[s[i]])]] : s \in RepeatPicks }

RepeatInit ==
    /\ df_bookings \in RepeatFrames
    /\ df_reviews = NoReviews
    /\ SummaryEntered
    /\ summarizer_instances = 0
    /\ SegmentIdle
    /\ AppIdle

\* main.py lines 37 and 105-111: the script runs again, loads the bookings and calls
\* segment_customers; the objects of the run before are gone
CallAgain ==
    /\ seg_pc \in {"PAGE_DONE", "RAISED"}
    /\ calls < MaxCalls
    /\ df_bookings' \in RepeatFrames
    /\ seg_pc' = "IDLE"
    /\ df' = NoFrame
    /\ scaled' = <<>>
    /\ labels' = <<>>
    /\ explanation' = <<>>
    /\ segments' = <<>>
    /\ page_bookings' = NoFrame
    /\ bookings_before' = NoFrame
    /\ UNCHANGED <<summaryVars, appVars, kmeans_fits, call_log, calls>>

RepeatNext == DeriveFeatures \/ Scale \/ Fit \/ Explain \/ AssignSegments \/ CallAgain

RepeatSpec == RepeatInit /\ [][RepeatNext]_vars

----------------------------------------------------------------------------
(* main.py: the script run once per interaction, one dashboard per run *)

MaxRuns == 2

\* the dashboards of the sidebar that compute figures or call the models
Pages == {"OVERVIEW", "SENTIMENT", "REVENUE", "AI_SUMMARY"}

\* the rows of the bookings file, as indexes into BookingChoices
AppBookingPicks == { <<>>, <<4>>, <<1, 1>>, <<1, 2>> }

\* the customer ids down the rows of the file: ascending or descending
IdOrders(n) == { [i \in 1..n |-> i], [i \in 1..n |-> n + 1 - i] }

AppBookingFrames ==
    UNION { { [columns |-> {"customer_id", "nights", "total_spent"},
               rows |-> [i \in 1..Len(s) |->
                           [BookingRow(i, BookingChoices[s[i]]) EXCEPT !.customer_id = ids[i]]]] :
                ids \in IdOrders(Len(s)) } : s \in AppBookingPicks }

\* the rows of the reviews file, as indexes into ReviewChoices
AppReviewPicks == { <<>>, <<1, 2>> }

AppReviewFrames ==
    { [columns |-> cs, rows |-> [i \in 1..Len(s) |-> ReviewChoices[s[i]]]] :
        cs \in ReviewColumnSets, s \in AppReviewPicks }

\* generate_summary is not running
SummaryIdle ==
    /\ pc = "IDLE"
    /\ sentiment_counts = <<>>
    /\ total_revenue = NaN
    /\ avg_revenue = NaN
    /\ avg_nights = NaN
    /\ prompt = <<>>
    /\ manual_args = NoArgs
    /\ summary_parts = <<>>
    /\ result = <<>>
    /\ returned = FALSE
    /\ outcome = NoOutcome
    /\ path = <<>>
    /\ summarizer_calls = 0
    /\ manual_runs = 0

AppInit ==
    /\ df_bookings \in AppBookingFrames
    /\ reviews_csv \in AppReviewFrames
    /\ df_reviews = NoFrame
    /\ SummaryIdle
    /\ summarizer_instances = 0
    /\ SegmentIdle
    /\ classifier_instances = 0
    /\ classifier_outcome = "unused"
    /\ app_pc = "IDLE"
    /\ page = "none"
    /\ runs = 0
    /\ per_night = NoFigure
    /\ top_revenue_booking = NoBooking

\* main.py lines 37 and 49-53: a run of the script starts with fresh objects, loads
\* the data and goes to the chosen dashboard
RunScript ==
    /\ app_pc \in {"IDLE", "DONE", "RAISED"}
    /\ runs < MaxRuns
    /\ runs' = runs + 1
    /\ \E p \in Pages : page' = p /\ app_pc' = p
    /\ df_reviews' = reviews_csv
    /\ classifier_outcome' = "unused"
    /\ per_night' = NoFigure
    /\ top_revenue_booking' = NoBooking
    /\ pc' = "IDLE"
    /\ sentiment_counts' = <<>>
    /\ total_revenue' = NaN
    /\ avg_revenue' = NaN
    /\ avg_nights' = NaN
    /\ prompt' = <<>>
    /\ manual_args' = NoArgs
    /\ summary_parts' = <<>>
    /\ result' = <<>>
    /\ returned' = FALSE
    /\ outcome' = NoOutcome
    /\ path' = <<>>
    /\ summarizer_calls' = 0
    /\ manual_runs' = 0
    /\ UNCHANGED <<df_bookings, segmentVars, reviews_csv, summarizer_instances, classifier_instances>>

\* the labels the classifier can give n reviews, or its failure
ClassifierOutcomes(n) ==
    { [kind |-> "raise", labels |-> <<>>] }
    \cup { [kind |-> "labels", labels |-> l] : l \in [1..n -> {"POSITIVE", "NEGATIVE"}] }

\* df_reviews["sentiment"] = sentiments
WithSentiment(frame, ls) ==
    [columns |-> frame.columns \cup {"sentiment"},
     rows |-> [i \in 1..Len(frame.rows) |-> [frame.rows[i] EXCEPT !.sentiment = ls[i]]]]

\* sentiments = analyze_sentiments(df_reviews["review"]); df_reviews["sentiment"] = sentiments
\* A pipeline is constructed on every call; nothing catches what it raises.
AnalyzeSentiments(then) ==
    IF "review" \notin df_reviews.columns
    THEN /\ app_pc' = "RAISED"
         /\ UNCHANGED <<df_reviews, classifier_outcome, classifier_instances>>
    ELSE \E o \in ClassifierOutcomes(Len(df_reviews.rows)) :
            /\ classifier_outcome' = o.kind
            /\ \E made \in PipelinesMade(o) : classifier_instances' = classifier_instances + made
            /\ IF o.kind = "raise"
               THEN /\ app_pc' = "RAISED"
                    /\ UNCHANGED df_reviews
               ELSE /\ df_reviews' = WithSentiment(df_reviews, o.labels)
                    /\ app_pc' = then

\* df_bookings['total_spent'].sum() / df_bookings['nights'].sum()
RevenuePerNight(db) == RDiv(TotalRevenue(db), TotalNights(db))

\* main.py lines 198-204: the division only when the nights sum is positive
RevenueEfficiency(db) ==
    IF RLess(Rat(0), TotalNights(db))
    THEN [site |-> "ai_summary", value |-> RDiv(TotalRevenue(db), TotalNights(db)), divided |-> TRUE]
    ELSE [site |-> "ai_summary", value |-> Rat(0), divided |-> FALSE]

\* df_bookings['total_spent'].idxmax(): the position of the first row with the largest
\* total_spent
IdxMax(db) ==
    CHOOSE i \in 1..Len(db.rows) :
        /\ \A j \in 1..Len(db.rows) : ~RLess(db.rows[i].total_spent, db.rows[j].total_spent)
        /\ \A j \in 1..(i - 1) : RLess(db.rows[j].total_spent, db.rows[i].total_spent)

\* df_bookings.loc[df_bookings['total_spent'].idxmax()]
TopRevenueBooking(db) == db.rows[IdxMax(db)]

\* visualizations.py lines 10-48, create_metrics_cards
MetricsCards ==
    /\ app_pc = "OVERVIEW"
    /\ IF {"nights", "total_spent"} \subseteq df_bookings.columns
       THEN /\ per_night' = [site |-> "metrics_cards", value |-> RevenuePerNight(df_bookings),
                             divided |-> TRUE]
            /\ app_pc' = "INSIGHTS"
       ELSE /\ app_pc' = "RAISED"
            /\ UNCHANGED per_night
    /\ UNCHANGED <<df_bookings, summaryVars, segmentVars, classifier_instances, classifier_outcome,
                   reviews_csv, page, runs, top_revenue_booking>>

\* visualizations.py lines 294-322, create_summary_insights: idxmax of an empty column
\* raises
SummaryInsights ==
    /\ app_pc = "INSIGHTS"
    /\ per_night' = [site |-> "summary_insights", value |-> RevenuePerNight(df_bookings),
                     divided |-> TRUE]
    /\ IF Len(df_bookings.rows) = 0
       THEN /\ app_pc' = "RAISED"
            /\ UNCHANGED top_revenue_booking
       ELSE /\ top_revenue_booking' = TopRevenueBooking(df_bookings)
            /\ app_pc' = "DONE"
    /\ UNCHANGED <<df_bookings, summaryVars, segmentVars, classifier_instances, classifier_outcome,
                   reviews_csv, page, runs>>

\* main.py lines 81-103, the Sentiment Analysis dashboard
SentimentPage ==
    /\ app_pc = "SENTIMENT"
    /\ AnalyzeSentiments("DONE")
    /\ UNCHANGED <<df_bookings, segmentVars, pc, sentiment_counts, total_revenue, avg_revenue,
                   avg_nights, prompt, manual_args, summary_parts, result, returned, outcome, path,
                   summarizer_calls, manual_runs, summarizer_instances,
                   reviews_csv, page, runs, per_night, top_revenue_booking>>

\* main.py lines 126-143, the Revenue Analysis dashboard
RevenuePage ==
    /\ app_pc = "REVENUE"
    /\ IF {"nights", "total_spent"} \subseteq df_bookings.columns
       THEN /\ per_night' = [site |-> "revenue_analysis", value |-> RevenuePerNight(df_bookings),
                             divided |-> TRUE]
            /\ app_pc' = "DONE"
       ELSE /\ app_pc' = "RAISED"
            /\ UNCHANGED per_night
    /\ UNCHANGED <<df_bookings, summaryVars, segmentVars, classifier_instances, classifier_outcome,
                   reviews_csv, page, runs, top_revenue_booking>>

\* main.py lines 169-174: the AI Summary dashboard runs the classifier when the reviews
\* have no sentiment yet
EnsureSentiment ==
    /\ app_pc = "AI_SUMMARY"
    /\ IF "sentiment" \in df_reviews.columns
       THEN /\ app_pc' = "GENERATE"
            /\ UNCHANGED <<df_reviews, classifier_outcome, classifier_instances>>
       ELSE AnalyzeSentiments("GENERATE")
    /\ UNCHANGED <<df_bookings, segmentVars, pc, sentiment_counts, total_revenue, avg_revenue,
                   avg_nights, prompt, manual_args, summary_parts, result, returned, outcome, path,
                   summarizer_calls, manual_runs, summarizer_instances,
                   reviews_csv, page, runs, per_night, top_revenue_booking>>

\* main.py line 178: summary = generate_summary(df_reviews, df_bookings)
CallGenerateSummary ==
    /\ app_pc = "GENERATE"
    /\ app_pc' = "IN_SUMMARY"
    /\ pc' = "START"
    /\ path' = <<"START">>
    /\ UNCHANGED <<df_bookings, segmentVars, df_reviews, sentiment_counts, total_revenue,
                   avg_revenue, avg_nights, prompt, manual_args, summary_parts, result, returned,
                   outcome, summarizer_calls, manual_runs, summarizer_instances,
                   classifier_instances, classifier_outcome, reviews_csv, page, runs, per_night,
                   top_revenue_booking>>

\* main.py lines 181-207: the summary is shown and the three metrics computed
ShowMetrics ==
    /\ app_pc = "IN_SUMMARY"
    /\ returned
    /\ IF {"nights", "total_spent"} \subseteq df_bookings.columns
       THEN /\ per_night' = RevenueEfficiency(df_bookings)
            /\ app_pc' = "DONE"
       ELSE /\ app_pc' = "RAISED"
            /\ UNCHANGED per_night
    /\ UNCHANGED <<df_bookings, summaryVars, segmentVars, classifier_instances, classifier_outcome,
                   reviews_csv, page, runs, top_revenue_booking>>

AppNext ==
    \/ RunScript
    \/ MetricsCards
    \/ SummaryInsights
    \/ SentimentPage
    \/ RevenuePage
    \/ EnsureSentiment
    \/ CallGenerateSummary
    \/ Compose
    \/ TryAI
    \/ InnerExcept
    \/ OuterExcept
    \/ ManualFallback
    \/ ShowMetrics

AppSpec == AppInit /\ [][AppNext]_vars

----------------------------------------------------------------------------
(* Properties of segment_customers *)

\* the rows of the frame with nights # 0
ValidRows(frame) == {i \in 1..Len(frame.rows) : frame.rows[i].nights # 0}

HasFeatureColumns(frame) == {"total_spent", "nights"} \subseteq frame.columns

\* the member counts an explanation line can be read to report
ReportedCounts(line) ==
    {c \in 0..Len(df_bookings.rows) : EndsWith(line, LitExplainCount \o Digits(c))}

\* C6: once segment_customers has returned, there is one label per booking, each in
\* {0, 1, 2}, and the member counts the three explanation lines report sum to the
\* number of bookings; the page gives every booking its label.
C6_LabelsPartition ==
    seg_pc \in {"RETURNED", "PAGE_DONE"} =>
        /\ Len(segments) = Len(df_bookings.rows)
        /\ \A i \in 1..Len(segments) : segments[i] \in {0, 1, 2}
        /\ Len(explanation) = 3
        /\ \A i \in 1..3 : StartsWith(explanation[i], LitSegment \o Digits(i - 1) \o <<":">>)
        /\ \E c1 \in ReportedCounts(explanation[1]) :
           \E c2 \in ReportedCounts(explanation[2]) :
           \E c3 \in ReportedCounts(explanation[3]) :
              /\ c1 + c2 + c3 = Len(df_bookings.rows)
              /\ \A i \in 1..3 : Cardinality(ReportedCounts(explanation[i])) = 1
        /\ seg_pc = "PAGE_DONE" =>
              /\ "segment" \in page_bookings.columns
              /\ Len(page_bookings.rows) = Len(df_bookings.rows)
              /\ \A i \in 1..Len(page_bookings.rows) : page_bookings.rows[i].segment = segments[i]

C6_Witness ==
    /\ seg_pc = "PAGE_DONE"
    /\ Len(df_bookings.rows) = 4
    /\ Range(segments) = {0, 1, 2}

\* C7 as stated: a booking with nights = 0 is left out before the features are
\* derived: no spent_per_night is computed for it, it gets no segment, and it makes
\* no error reach the caller.
C7_ZeroNightsExcluded ==
    HasFeatureColumns(df_bookings) =>
        /\ \A i \in 1..Len(df.rows) : df.rows[i].nights # 0
        /\ \A i \in 1..Len(scaled) : scaled[i][1] # Rat(0)
        /\ Len(segments) <= Cardinality(ValidRows(df_bookings))
        /\ Cardinality(ValidRows(df_bookings)) >= 3 => seg_pc # "RAISED"

\* C8: with fewer than 3 valid rows segment_customers raises to its caller and
\* returns no labels.
C8_TooFewRowsRaises ==
    (HasFeatureColumns(df_bookings) /\ Cardinality(ValidRows(df_bookings)) < 3) =>
        /\ labels = <<>>
        /\ segments = <<>>
        /\ seg_pc \in {"IDLE", "SCALE", "FIT", "RAISED"}
        /\ seg_pc # "RAISED" => ENABLED SegNext

C8_Witness ==
    /\ seg_pc = "RAISED"
    /\ HasFeatureColumns(df_bookings)
    /\ Len(df_bookings.rows) = 2
    /\ Cardinality(ValidRows(df_bookings)) = 2
    /\ Len(scaled) = 2

\* C15: segment_customers leaves the frame it was given as it was: from its entry to
\* its return or its failure, the caller's bookings have the rows, the columns and
\* the values they had at entry (no spent_per_night or segment column is added).
C15_InputUnchanged ==
    seg_pc \in {"SCALE", "FIT", "EXPLAIN", "RETURNED", "RAISED"} => df_bookings = bookings_before

C15_Witness ==
    /\ seg_pc = "RETURNED"
    /\ "spent_per_night" \in df.columns
    /\ "spent_per_night" \notin df_bookings.columns
    /\ "segment" \notin df_bookings.columns
    /\ df_bookings = bookings_before

\* C18: any two calls of segment_customers that were given identical bookings returned
\* identical label sequences, whatever calls were made between them.
C18_SameDataSameLabels ==
    \A i \in 1..Len(call_log) : \A j \in 1..Len(call_log) :
        call_log[i].given = call_log[j].given => call_log[i].labels = call_log[j].labels

C18_Witness ==
    /\ Len(call_log) = 3
    /\ call_log[1].given = call_log[3].given
    /\ call_log[2].given # call_log[1].given
    /\ call_log[2].labels # call_log[1].labels
    /\ call_log[3].labels = call_log[1].labels

----------------------------------------------------------------------------
(* Properties of the dashboards *)

\* C13 as stated: when the classifier raises, no exception reaches the page, the
\* reviews are left without a sentiment column, and the summary that follows is made
\* with the zeroed sentiment counts.
C13_ClassifierFailureAbsorbed ==
    classifier_outcome = "raise" =>
        /\ app_pc # "RAISED"
        /\ "sentiment" \notin df_reviews.columns
        /\ pc \in {"TRY_AI", "FAIL", "MANUAL_FALLBACK", "SUCCESS"} =>
              sentiment_counts = ZeroSentimentCounts

\* C14 as stated: over the runs of one process, at most one summarization pipeline and
\* at most one sentiment pipeline are ever constructed.
C14_InstantiatedOnce ==
    /\ summarizer_instances <= 1
    /\ classifier_instances <= 1

\* C16 as stated: wherever revenue per night is computed, a nights sum of 0 yields 0
\* and no division is performed; generate_summary then puts no quotient in its prompt.
C16_PerNightGuarded ==
    ({"nights", "total_spent"} \subseteq df_bookings.columns /\ REq(TotalNights(df_bookings), Rat(0))) =>
        /\ per_night.site # "none" => (REq(per_night.value, Rat(0)) /\ ~per_night.divided)
        /\ "spent_per_night" \notin df_bookings.columns => SpentPerNightInfo(df_bookings) = <<>>

\* C17 as stated: the top-revenue booking has the largest total_spent of the dataset,
\* and of the bookings with that total_spent it has the lowest customer_id, whatever
\* the order of the rows.
C17_TopBookingLowestId ==
    top_revenue_booking # NoBooking =>
        \A i \in 1..Len(df_bookings.rows) :
            /\ ~RLess(top_revenue_booking.total_spent, df_bookings.rows[i].total_spent)
            /\ REq(df_bookings.rows[i].total_spent, top_revenue_booking.total_spent) =>
                  top_revenue_booking.customer_id <= df_bookings.rows[i].customer_id

====
